---------------------------- MODULE Spec2Model ----------------------------
(***************************************************************************)
(* LayoutLens importer: ALayoutLensVisualizerActor reads a room-plan JSON  *)
(* document, parses it into an FLayoutLensRoomPlan and derives the room    *)
(* outline, the wall boxes, the opening rectangles and the floor boxes.    *)
(*                                                                         *)
(* Numbers.  Every float of the program is a fixed-point integer here: the *)
(* real r is stored as r * Fix.  A length in metres and a length in        *)
(* centimetres are both stored that way, so the program's "* 100.0f"       *)
(* stays a multiplication by 100.  Float rounding is not modelled.         *)
(*                                                                         *)
(* JSON.  A JSON value is a tagged record: JNum, JStr, JArr, JObj.  A JSON *)
(* object is a function from its keys to values, so a missing key is a     *)
(* key outside DOMAIN.                                                     *)
(***************************************************************************)
EXTENDS Integers, Sequences, FiniteSets, TLC

VARIABLES
    doc,              \* content of the room plan file (a JSON value, or invalid text)
    file,             \* the file at RoomPlanFilePath: "ok", or why it cannot be loaded
    pc,               \* actor lifecycle: "constructed", "playing", "ended"
    cfg,              \* the actor's EditAnywhere properties
    reloads,          \* number of ReloadLayout calls made so far
    ReturnValue,      \* what the last ReloadLayout returned (FALSE before the first)
    ErrorText,        \* ErrorText of the last ReloadLayout
    Plan,             \* the local Plan of the last ReloadLayout, as it was at return
    SpawnedActors,    \* ALayoutLensVisualizerActor::SpawnedActors
    debugLines        \* the world's persistent debug lines, in drawing order

vars == <<doc, file, pc, cfg, reloads, ReturnValue, ErrorText, Plan, SpawnedActors, debugLines>>

---------------------------------------------------------------------------
(* Fixed point and FMath *)

Fix == 1000

Min(a, b) == IF a < b THEN a ELSE b
Max(a, b) == IF a > b THEN a ELSE b
\* FMath::Clamp(X, Min, Max): X < Min ? Min : (X < Max ? X : Max)
Clamp(x, lo, hi) == IF x < lo THEN lo ELSE IF x < hi THEN x ELSE hi

\* X * 100.0f
Times100(v) == v * 100
\* X * 0.5f
Half(v) == v \div 2

RECURSIVE ISqrt(_)
ISqrt(n) ==
    IF n < 2 THEN n
    ELSE LET s == 2 * ISqrt(n \div 4)
             l == s + 1
         IN  IF l * l > n THEN s ELSE l

\* FVector::Size() of (dx, dy, 0): the stored length of a stored vector
Size2D(dx, dy) == ISqrt(dx * dx + dy * dy)

\* FString::Equals(Other, ESearchCase::IgnoreCase) on the strings of the model
ToLower(s) ==
    CASE s = "POLY" -> "poly"
      [] s = "Poly" -> "poly"
      [] s = "RECT" -> "rect"
      [] s = "Door" -> "door"
      [] s = "DOOR" -> "door"
      [] s = "Window" -> "window"
      [] s = "Floor" -> "floor"
      [] s = "FLOOR" -> "floor"
      [] OTHER -> s
EqualsIgnoreCase(a, b) == ToLower(a) = ToLower(b)

---------------------------------------------------------------------------
(* JSON values and the FJsonObject accessors the parser calls *)

JNum(n) == [t |-> "num", n |-> n]
JStr(s) == [t |-> "str", s |-> s]
JArr(a) == [t |-> "arr", a |-> a]
JObj(f) == [t |-> "obj", o |-> f]
JInvalid == [t |-> "invalid"]

\* FJsonObject::TryGetObjectField / TryGetArrayField: true iff the key is
\* there and holds that type
TryGetObjectField(o, key) == key \in DOMAIN o /\ o[key].t = "obj"
TryGetArrayField(o, key) == key \in DOMAIN o /\ o[key].t = "arr"
\* FJsonObject::GetNumberField / GetIntegerField / GetStringField: the
\* value, and 0 or the empty string when the key is missing
GetNumberField(o, key) ==
    IF key \in DOMAIN o /\ o[key].t = "num" THEN o[key].n ELSE 0
GetIntegerField(o, key) ==
    IF key \in DOMAIN o /\ o[key].t = "num"
    THEN (IF o[key].n >= 0 THEN o[key].n \div Fix ELSE -((-o[key].n) \div Fix))
    ELSE 0
GetStringField(o, key) ==
    IF key \in DOMAIN o /\ o[key].t = "str" THEN o[key].s ELSE ""
\* FJsonValue::AsObject().IsValid(), as the parser's guards read it
AsObjectIsValid(v) == v.t = "obj"

---------------------------------------------------------------------------
(* LayoutLensRoomPlanTypes.h: the structs and their default member values *)

DefaultElement ==
    [Id |-> "", Label |-> "", Placement |-> "", HeightMeters |-> 900,
     Transform |-> [X |-> 0, Y |-> 0, YawDeg |-> 0],
     FootprintKind |-> "", WidthMeters |-> 1000, DepthMeters |-> 1000,
     PolygonPoints |-> <<>>]

DefaultPlan ==
    [RoomHeightMeters |-> 2700, Boundary |-> <<>>, Openings |-> <<>>,
     Elements |-> <<>>]

---------------------------------------------------------------------------
(* ALayoutLensVisualizerActor::ParseRoomPlanJson *)

\* mutant of ParsePoints: an object lacking "x" or "y" is passed over too
ParsePoints_SkipIncomplete(a) ==
    LET objs == SelectSeq(a, LAMBDA v : AsObjectIsValid(v) /\ {"x", "y"} \subseteq DOMAIN v.o)
    IN  [i \in 1..Len(objs) |->
            [X |-> GetNumberField(objs[i].o, "x"),
             Y |-> GetNumberField(objs[i].o, "y")]]

\* mutant of ParsePoints: a lone vertex is dropped
ParsePoints_NoSingle(a) ==
    LET objs == SelectSeq(a, AsObjectIsValid)
    IN  IF Len(objs) = 1 THEN <<>>
        ELSE [i \in 1..Len(objs) |->
                [X |-> GetNumberField(objs[i].o, "x"),
                 Y |-> GetNumberField(objs[i].o, "y")]]

\* the loop over an array of {x, y} objects (space.boundary, footprint.points):
\* entries whose AsObject() is not valid are passed over
ParsePoints(a) ==
    LET objs == SelectSeq(a, AsObjectIsValid)
    IN  [i \in 1..Len(objs) |->
            [X |-> GetNumberField(objs[i].o, "x"),
             Y |-> GetNumberField(objs[i].o, "y")]]

\* the loop over space.openings
ParseOpenings(a) ==
    LET objs == SelectSeq(a, AsObjectIsValid)
    IN  [i \in 1..Len(objs) |->
            [Kind |-> GetStringField(objs[i].o, "kind"),
             EdgeIndex |-> GetIntegerField(objs[i].o, "edge_index"),
             Center01 |-> GetNumberField(objs[i].o, "center"),
             WidthMeters |-> GetNumberField(objs[i].o, "width")]]

\* the bounding-box loop over Element.PolygonPoints, from index i on
RECURSIVE BoundsFrom(_, _, _)
BoundsFrom(pts, i, b) ==
    IF i > Len(pts) THEN b
    ELSE BoundsFrom(pts, i + 1,
            [MinX |-> Min(b.MinX, pts[i].X), MaxX |-> Max(b.MaxX, pts[i].X),
             MinY |-> Min(b.MinY, pts[i].Y), MaxY |-> Max(b.MaxY, pts[i].Y)])

\* mutant of ParsePolyFootprint: width and depth without the 0.01 floor
ParsePolyFootprint_NoFloor(Element, fp) ==
    IF ~TryGetArrayField(fp, "points") THEN Element
    ELSE LET pts == ParsePoints(fp["points"].a)
             e1 == [Element EXCEPT !.PolygonPoints = pts]
         IN  IF Len(pts) > 0
             THEN LET b == BoundsFrom(pts, 1,
                              [MinX |-> pts[1].X, MaxX |-> pts[1].X,
                               MinY |-> pts[1].Y, MaxY |-> pts[1].Y])
                  IN  [e1 EXCEPT !.WidthMeters = b.MaxX - b.MinX,
                                 !.DepthMeters = b.MaxY - b.MinY]
             ELSE e1

\* the "poly" branch: PolygonPoints, and width and depth from their bounds
ParsePolyFootprint(Element, fp) ==
    IF ~TryGetArrayField(fp, "points") THEN Element
    ELSE LET pts == ParsePoints(fp["points"].a)
             e1 == [Element EXCEPT !.PolygonPoints = pts]
         IN  IF Len(pts) > 0
             THEN LET b == BoundsFrom(pts, 1,
                              [MinX |-> pts[1].X, MaxX |-> pts[1].X,
                               MinY |-> pts[1].Y, MaxY |-> pts[1].Y])
                  IN  [e1 EXCEPT !.WidthMeters = Max(b.MaxX - b.MinX, 10),
                                 !.DepthMeters = Max(b.MaxY - b.MinY, 10)]
             ELSE e1

\* the "footprint" block of one element
ParseFootprint(Element, o) ==
    IF ~TryGetObjectField(o, "footprint") THEN Element
    ELSE LET fp == o["footprint"].o
             e1 == [Element EXCEPT !.FootprintKind = GetStringField(fp, "kind")]
         IN  IF EqualsIgnoreCase(e1.FootprintKind, "rect")
             THEN [e1 EXCEPT !.WidthMeters = GetNumberField(fp, "width"),
                             !.DepthMeters = GetNumberField(fp, "depth")]
             ELSE IF EqualsIgnoreCase(e1.FootprintKind, "poly")
             THEN ParsePolyFootprint(e1, fp)
             ELSE e1

\* the "transform" block of one element
ParseTransform(Element, o) ==
    IF ~TryGetObjectField(o, "transform") THEN Element
    ELSE LET tr == o["transform"].o
         IN  [Element EXCEPT !.Transform =
                 [X |-> GetNumberField(tr, "x"), Y |-> GetNumberField(tr, "y"),
                  YawDeg |-> GetNumberField(tr, "yaw_deg")]]

\* the body of the elements loop for one object entry
ParseElement(o) ==
    LET e1 == [DefaultElement EXCEPT
                  !.Id = GetStringField(o, "id"),
                  !.Label = GetStringField(o, "label"),
                  !.Placement = GetStringField(o, "placement"),
                  !.HeightMeters = GetNumberField(o, "height")]
    IN  ParseFootprint(ParseTransform(e1, o), o)

\* mutant of ParseElements: the loop ends at the first entry that is no object
RECURSIVE ParseElements_Break(_)
ParseElements_Break(a) ==
    IF a = <<>> \/ ~AsObjectIsValid(Head(a)) THEN <<>>
    ELSE <<ParseElement(Head(a).o)>> \o ParseElements_Break(Tail(a))

\* the loop over elements
ParseElements(a) ==
    LET objs == SelectSeq(a, AsObjectIsValid)
    IN  [i \in 1..Len(objs) |-> ParseElement(objs[i].o)]

\* the openings block: OutPlan.Openings is left alone when the key is absent
ParseOpeningsBlock(OutPlan, space) ==
    IF TryGetArrayField(space, "openings")
    THEN [OutPlan EXCEPT !.Openings = ParseOpenings(space["openings"].a)]
    ELSE OutPlan

\* The function is a chain of checks, each an early return; a stage below is
\* the function from one check on.  The result is [ok, plan (OutPlan as
\* left at return), err (OutError)].

\* mutant of ElementsStage: a missing "elements" array reports the boundary's cause
ElementsStage_SameCause(root, OutPlan) ==
    IF ~TryGetArrayField(root, "elements")
    THEN [ok |-> FALSE, plan |-> OutPlan, err |-> "Missing 'space.boundary' array."]
    ELSE [ok |-> TRUE,
          plan |-> [OutPlan EXCEPT !.Elements = ParseElements(root["elements"].a)],
          err |-> ""]

\* from the "elements" check on
ElementsStage(root, OutPlan) ==
    IF ~TryGetArrayField(root, "elements")
    THEN [ok |-> FALSE, plan |-> OutPlan, err |-> "Missing 'elements' array."]
    ELSE [ok |-> TRUE,
          plan |-> [OutPlan EXCEPT !.Elements = ParseElements(root["elements"].a)],
          err |-> ""]

\* mutant of OpeningsStage: "openings" is required like "boundary"
OpeningsStage_Required(root, space, OutPlan) ==
    IF ~TryGetArrayField(space, "openings")
    THEN [ok |-> FALSE, plan |-> OutPlan, err |-> "Missing 'space.openings' array."]
    ELSE ElementsStage(root, ParseOpeningsBlock(OutPlan, space))

\* from the openings block on
OpeningsStage(root, space, OutPlan) ==
    ElementsStage(root, ParseOpeningsBlock(OutPlan, space))

\* from the "boundary" check on
BoundaryStage(root, space, OutPlan) ==
    IF ~TryGetArrayField(space, "boundary")
    THEN [ok |-> FALSE, plan |-> OutPlan, err |-> "Missing 'space.boundary' array."]
    ELSE OpeningsStage(root, space,
            [OutPlan EXCEPT !.Boundary = ParsePoints(space["boundary"].a)])

\* from the "space" check on
SpaceStage(root, OutPlan) ==
    IF ~TryGetObjectField(root, "space")
    THEN [ok |-> FALSE, plan |-> OutPlan, err |-> "Missing 'space' object."]
    ELSE LET space == root["space"].o
         IN  BoundaryStage(root, space,
                [OutPlan EXCEPT !.RoomHeightMeters = GetNumberField(space, "height")])

ParseRoomPlanJson(JsonText, OutPlan) ==
    IF JsonText.t # "obj"
    THEN [ok |-> FALSE, plan |-> OutPlan, err |-> "FJsonSerializer::Deserialize failed."]
    ELSE SpaceStage(JsonText.o, OutPlan)

---------------------------------------------------------------------------
(* Vectors, debug lines and placeholder actors *)

\* float division and multiplication of stored values (truncating)
FDiv(a, b) == IF a >= 0 THEN (a * Fix) \div b ELSE -(((-a) * Fix) \div b)
FMul(a, b) == IF a * b >= 0 THEN (a * b) \div Fix ELSE -((-(a * b)) \div Fix)

\* FVector::GetSafeNormal() of a planar vector
GetSafeNormal(x, y) ==
    LET s == Size2D(x, y)
    IN  IF s = 0 THEN <<0, 0>> ELSE <<FDiv(x, s), FDiv(y, s)>>

\* DrawDebugLine(World, A, B, Color, bPersistentLines = true, LifeTime,
\* DepthPriority, Thickness): the line the world keeps
DrawDebugLine(A, B, Color, DepthPriority, Thickness) ==
    [A |-> A, B |-> B, Color |-> Color, DepthPriority |-> DepthPriority,
     Thickness |-> Thickness]

\* ALayoutLensPlaceholderActor::SetBoxSizeCm: SafeSizeCm (the box mesh's
\* relative scale times the 100 cm cube) and the label's height
SetBoxSizeCm(BoxSizeCm) ==
    LET Safe == <<Max(BoxSizeCm[1], Fix), Max(BoxSizeCm[2], Fix), Max(BoxSizeCm[3], Fix)>>
    IN  [SafeSizeCm |-> Safe, LabelZ |-> Half(Safe[3]) + 30 * Fix]

\* a spawned ALayoutLensPlaceholderActor after SetBoxSizeCm and SetLabelText
PlaceholderActor(Location, Rotation, BoxSizeCm, LabelText) ==
    [Location |-> Location, Rotation |-> Rotation,
     Box |-> SetBoxSizeCm(BoxSizeCm), LabelText |-> LabelText]

---------------------------------------------------------------------------
(* ALayoutLensVisualizerActor::SpawnRoomOutline: the lines it draws *)

OutlineZ == 5

\* mutant of SpawnRoomOutline: the loop stops before the closing segment
SpawnRoomOutline_Open(P) ==
    LET Count == Len(P.Boundary)
    IN  IF Count < 2 THEN <<>>
        ELSE [i \in 1..(Count - 1) |->
                LET A == <<Times100(P.Boundary[i].X),
                           Times100(P.Boundary[i].Y), OutlineZ * Fix>>
                    B == <<Times100(P.Boundary[i + 1].X),
                           Times100(P.Boundary[i + 1].Y), OutlineZ * Fix>>
                IN  DrawDebugLine(A, B, "Cyan", 100, 4)]

SpawnRoomOutline(P) ==
    LET Count == Len(P.Boundary)
    IN  IF Count < 2 THEN <<>>
        ELSE [i \in 1..Count |->
                LET Index == i - 1
                    NextIndex == (Index + 1) % Count
                    A == <<Times100(P.Boundary[Index + 1].X),
                           Times100(P.Boundary[Index + 1].Y), OutlineZ * Fix>>
                    B == <<Times100(P.Boundary[NextIndex + 1].X),
                           Times100(P.Boundary[NextIndex + 1].Y), OutlineZ * Fix>>
                IN  DrawDebugLine(A, B, "Cyan", 100, 4)]

---------------------------------------------------------------------------
(* ALayoutLensVisualizerActor::SpawnWallMeshes: the actors it spawns *)

\* mutant of WallEdgeTooShort: an edge of exactly 1 cm is passed over too
WallEdgeTooShort_Inclusive(LengthCm) == LengthCm <= 1 * Fix

\* the length test of the walls loop: the edge is passed over
WallEdgeTooShort(LengthCm) == LengthCm < 1 * Fix

\* the loop body for edge Index: the wall actor, in a sequence, or nothing
WallForEdge(P, Index, WallThicknessCm) ==
    LET PointCount == Len(P.Boundary)
        WallHeightCm == Times100(P.RoomHeightMeters)
        WallZ == Half(WallHeightCm)
        NextIndex == (Index + 1) % PointCount
        PointA == <<Times100(P.Boundary[Index + 1].X),
                    Times100(P.Boundary[Index + 1].Y), WallZ>>
        PointB == <<Times100(P.Boundary[NextIndex + 1].X),
                    Times100(P.Boundary[NextIndex + 1].Y), WallZ>>
        DeltaX == PointB[1] - PointA[1]
        DeltaY == PointB[2] - PointA[2]
        LengthCm == Size2D(DeltaX, DeltaY)
        Center == <<Half(PointA[1] + PointB[1]), Half(PointA[2] + PointB[2]),
                    Half(PointA[3] + PointB[3])>>
        \* RadiansToDegrees(Atan2(Delta.Y, Delta.X)), kept as its arguments
        Rotation == [atan2y |-> DeltaY, atan2x |-> DeltaX]
    IN  IF WallEdgeTooShort(LengthCm) THEN <<>>
        ELSE <<PlaceholderActor(Center, Rotation,
                    <<LengthCm, WallThicknessCm, WallHeightCm>>, <<>>)>>

RECURSIVE WallsFrom(_, _, _)
WallsFrom(P, Index, WallThicknessCm) ==
    IF Index >= Len(P.Boundary) THEN <<>>
    ELSE WallForEdge(P, Index, WallThicknessCm) \o WallsFrom(P, Index + 1, WallThicknessCm)

SpawnWallMeshes(P, WallThicknessCm) ==
    IF Len(P.Boundary) < 2 THEN <<>> ELSE WallsFrom(P, 0, WallThicknessCm)

---------------------------------------------------------------------------
(* ALayoutLensVisualizerActor::SpawnOpenings: the lines it draws *)

\* mutant of OpeningCenter01: the fraction is used as read
OpeningCenter01_Unclamped(Opening) == Opening.Center01

\* the edge an opening sits on
OpeningEdgeIndex(Opening, PointCount) == Clamp(Opening.EdgeIndex, 0, PointCount - 1)
\* the fraction of the edge at which its center lies
OpeningCenter01(Opening) == Clamp(Opening.Center01, 0, 1 * Fix)

\* mutant of OpeningVerticalExtent: a door as tall as the room
OpeningVerticalExtent_NoDoorCap(Kind, RoomHeightCm) ==
    LET IsDoor == EqualsIgnoreCase(Kind, "door")
        IsWindow == EqualsIgnoreCase(Kind, "window")
    IN  IF IsDoor
        THEN [BottomZCm |-> 0, TopZCm |-> RoomHeightCm]
        ELSE IF IsWindow
        THEN LET Bottom == Clamp(100 * Fix, 0, Max(RoomHeightCm - 20 * Fix, 0))
             IN  [BottomZCm |-> Bottom,
                  TopZCm |-> Min(RoomHeightCm - 10 * Fix, Bottom + 100 * Fix)]
        ELSE [BottomZCm |-> 0, TopZCm |-> Min(RoomHeightCm, 150 * Fix)]

\* BottomZCm and TopZCm by kind
OpeningVerticalExtent(Kind, RoomHeightCm) ==
    LET IsDoor == EqualsIgnoreCase(Kind, "door")
        IsWindow == EqualsIgnoreCase(Kind, "window")
    IN  IF IsDoor
        THEN [BottomZCm |-> 0, TopZCm |-> Min(RoomHeightCm, 210 * Fix)]
        ELSE IF IsWindow
        THEN LET SillZCm == 100 * Fix
                 WindowHeightCm == 100 * Fix
                 Bottom == Clamp(SillZCm, 0, Max(RoomHeightCm - 20 * Fix, 0))
             IN  [BottomZCm |-> Bottom,
                  TopZCm |-> Min(RoomHeightCm - 10 * Fix, Bottom + WindowHeightCm)]
        ELSE [BottomZCm |-> 0, TopZCm |-> Min(RoomHeightCm, 150 * Fix)]

OpeningColor(Kind) ==
    IF EqualsIgnoreCase(Kind, "door") THEN "Green"
    ELSE IF EqualsIgnoreCase(Kind, "window") THEN "Yellow" ELSE "White"

\* the four lines of a rectangle over the planar endpoints A2D, B2D
OpeningRectLines(A2D, B2D, Ext, Color) ==
    LET ABottom == <<A2D[1], A2D[2], Ext.BottomZCm>>
        BBottom == <<B2D[1], B2D[2], Ext.BottomZCm>>
        ATop == <<A2D[1], A2D[2], Ext.TopZCm>>
        BTop == <<B2D[1], B2D[2], Ext.TopZCm>>
    IN  <<DrawDebugLine(ABottom, BBottom, Color, 8, 10),
          DrawDebugLine(ATop, BTop, Color, 8, 10),
          DrawDebugLine(ABottom, ATop, Color, 8, 10),
          DrawDebugLine(BBottom, BTop, Color, 8, 10)>>

\* mutant of OpeningPlanar: the normal points to the other side of the edge
OpeningPlanar_OtherSide(EdgeA, EdgeB, EdgeLengthCm, Frac01, WidthMeters, WallOffsetCm) ==
    LET DirX == FDiv(EdgeB[1] - EdgeA[1], EdgeLengthCm)
        DirY == FDiv(EdgeB[2] - EdgeA[2], EdgeLengthCm)
        Normal == GetSafeNormal(DirY, -DirX)
        CenterDistanceCm == FMul(Frac01, EdgeLengthCm)
        CenterX == EdgeA[1] + FMul(DirX, CenterDistanceCm) + FMul(Normal[1], WallOffsetCm)
        CenterY == EdgeA[2] + FMul(DirY, CenterDistanceCm) + FMul(Normal[2], WallOffsetCm)
        HalfWidthCm == Half(Times100(WidthMeters))
    IN  [Center |-> <<CenterX, CenterY>>,
         A2D |-> <<CenterX - FMul(DirX, HalfWidthCm), CenterY - FMul(DirY, HalfWidthCm)>>,
         B2D |-> <<CenterX + FMul(DirX, HalfWidthCm), CenterY + FMul(DirY, HalfWidthCm)>>]

\* center and planar endpoints of an opening of width WidthMeters at
\* fraction Frac01 of the edge EdgeA -> EdgeB of length EdgeLengthCm
OpeningPlanar(EdgeA, EdgeB, EdgeLengthCm, Frac01, WidthMeters, WallOffsetCm) ==
    LET DirX == FDiv(EdgeB[1] - EdgeA[1], EdgeLengthCm)
        DirY == FDiv(EdgeB[2] - EdgeA[2], EdgeLengthCm)
        Normal == GetSafeNormal(-DirY, DirX)
        CenterDistanceCm == FMul(Frac01, EdgeLengthCm)
        CenterX == EdgeA[1] + FMul(DirX, CenterDistanceCm) + FMul(Normal[1], WallOffsetCm)
        CenterY == EdgeA[2] + FMul(DirY, CenterDistanceCm) + FMul(Normal[2], WallOffsetCm)
        HalfWidthCm == Half(Times100(WidthMeters))
    IN  [Center |-> <<CenterX, CenterY>>,
         A2D |-> <<CenterX - FMul(DirX, HalfWidthCm), CenterY - FMul(DirY, HalfWidthCm)>>,
         B2D |-> <<CenterX + FMul(DirX, HalfWidthCm), CenterY + FMul(DirY, HalfWidthCm)>>]

\* the loop body for one opening: its four lines, or nothing
LinesForOpening(P, Opening, WallThicknessCm) ==
    LET PointCount == Len(P.Boundary)
        RoomHeightCm == Times100(P.RoomHeightMeters)
        WallOffsetCm == Half(WallThicknessCm) + 2 * Fix
        EdgeIndex == OpeningEdgeIndex(Opening, PointCount)
        NextIndex == (EdgeIndex + 1) % PointCount
        EdgeA == <<Times100(P.Boundary[EdgeIndex + 1].X),
                   Times100(P.Boundary[EdgeIndex + 1].Y)>>
        EdgeB == <<Times100(P.Boundary[NextIndex + 1].X),
                   Times100(P.Boundary[NextIndex + 1].Y)>>
        EdgeLengthCm == Size2D(EdgeB[1] - EdgeA[1], EdgeB[2] - EdgeA[2])
    IN  IF EdgeLengthCm < 1 * Fix THEN <<>>
        ELSE LET R == OpeningPlanar(EdgeA, EdgeB, EdgeLengthCm,
                                    OpeningCenter01(Opening), Opening.WidthMeters,
                                    WallOffsetCm)
             IN  OpeningRectLines(R.A2D, R.B2D,
                     OpeningVerticalExtent(Opening.Kind, RoomHeightCm),
                     OpeningColor(Opening.Kind))

RECURSIVE OpeningsFrom(_, _, _)
OpeningsFrom(P, i, WallThicknessCm) ==
    IF i > Len(P.Openings) THEN <<>>
    ELSE LinesForOpening(P, P.Openings[i], WallThicknessCm)
         \o OpeningsFrom(P, i + 1, WallThicknessCm)

\* mutant of SpawnOpenings: nothing is drawn once the world holds a line
SpawnOpenings_Once(P, WallThicknessCm) ==
    IF debugLines # <<>> \/ Len(P.Boundary) < 2 THEN <<>>
    ELSE OpeningsFrom(P, 1, WallThicknessCm)

SpawnOpenings(P, WallThicknessCm) ==
    IF Len(P.Boundary) < 2 THEN <<>> ELSE OpeningsFrom(P, 1, WallThicknessCm)

---------------------------------------------------------------------------
(* ALayoutLensVisualizerActor::SpawnFloorElements: the actors it spawns *)

\* mutant of IsFloorPlacement: the comparison minds the case
IsFloorPlacement_Exact(Element) == Element.Placement = "floor"

IsFloorPlacement(Element) == EqualsIgnoreCase(Element.Placement, "floor")

FloorActor(Element, SpawnLabels) ==
    LET WidthCm == Times100(Element.WidthMeters)
        DepthCm == Times100(Element.DepthMeters)
        HeightCm == Times100(Element.HeightMeters)
        Z == Half(HeightCm)
        Location == <<Times100(Element.Transform.X), Times100(Element.Transform.Y), Z>>
        Rotation == [yawDeg |-> Element.Transform.YawDeg]
        \* FString::Printf("%s\n(%s)", Label, Id), kept as its pieces
        LabelText == IF SpawnLabels THEN <<Element.Label, "\n(", Element.Id, ")">> ELSE <<>>
    IN  PlaceholderActor(Location, Rotation, <<WidthCm, DepthCm, HeightCm>>, LabelText)

SpawnFloorElements(P, SpawnLabels) ==
    LET floor == SelectSeq(P.Elements, IsFloorPlacement)
    IN  [i \in 1..Len(floor) |-> FloorActor(floor[i], SpawnLabels)]

---------------------------------------------------------------------------
(* The room plan documents the model reads *)

MaxBoundary == 3
MaxOpenings == 2
MaxElements == 2
MaxPolyPoints == 3
MaxReloads == 2

BoundedSeqs(S, n) == UNION {[1..k -> S] : k \in 0..n}

Absent == [t |-> "absent"]
\* the JSON object with the fields of record f that are not Absent
ObjOf(f) == JObj([k \in {j \in DOMAIN f : f[j].t # "absent"} |-> f[k]])

Pt(x, y) == ObjOf([x |-> JNum(x), y |-> JNum(y)])

\* entries of space.boundary: (0,0), (0.2,0), two points 0.5 cm and 1.5 cm
\* further along y, a number, and an object without "y"
PointEntries ==
    {Pt(0, 0), Pt(200, 0), Pt(200, 5), Pt(200, 15), JNum(7 * Fix),
     ObjOf([x |-> JNum(200), y |-> Absent])}

Square == <<Pt(0, 0), Pt(200, 0), Pt(200, 100), Pt(0, 100)>>
FewBoundaries ==
    {Square, <<Pt(0, 0), Pt(200, 100)>>, <<Pt(200, 100)>>,
     <<Pt(0, 0), Pt(200, 0), Pt(200, 0), Pt(0, 100)>>}

OpeningObj(kind, edge, center, width) ==
    ObjOf([kind |-> kind, edge_index |-> edge, center |-> center, width |-> width])

OpeningEntries ==
    {OpeningObj(JStr(k), JNum(1 * Fix), JNum(500), JNum(80)) :
        k \in {"door", "Window", "vent"}}
    \cup {OpeningObj(JStr("door"), JNum(e * Fix), JNum(250), JNum(80)) :
        e \in {-1, 99}}
    \cup {OpeningObj(JStr("window"), JNum(2 * Fix), JNum(c), JNum(60)) :
        c \in {-300, 1700}}
    \cup {JStr("opening"),
          OpeningObj(Absent, Absent, JNum(500), JNum(80)),
          OpeningObj(JStr("door"), JNum(0), Absent, Absent)}

HeightOpts == {Absent, JNum(0), JNum(150), JNum(900), JNum(1500), JNum(3000), JNum(4000)}

ElementObj(id, placement, height, transform, footprint) ==
    ObjOf([id |-> id, label |-> JStr("Item"), placement |-> placement,
           height |-> height, transform |-> transform, footprint |-> footprint])

TransformObj == ObjOf([x |-> JNum(1500), y |-> JNum(-250), yaw_deg |-> JNum(90 * Fix)])
RectFootprint == ObjOf([kind |-> JStr("rect"), width |-> JNum(1200), depth |-> JNum(600)])
PolyFootprint(kind, points) == ObjOf([kind |-> JStr(kind), points |-> points])

PolyPointEntries == {Pt(0, 0), Pt(2000, 1000), Pt(5, -3), Pt(-400, 7), JNum(1 * Fix)}
Rectangle == <<Pt(0, 0), Pt(2000, 0), Pt(2000, 1000), Pt(0, 1000)>>

ElementEntries ==
    {ElementObj(JStr("e1"), JStr(p), JNum(750), TransformObj, RectFootprint) :
        p \in {"floor", "Floor", "wall"}}
    \cup {ElementObj(JStr("e2"), JStr("floor"), JNum(400), TransformObj, f) :
        f \in {Absent,
               ObjOf([kind |-> JStr("RECT"), width |-> JNum(300), depth |-> Absent]),
               ObjOf([kind |-> JStr("circle"), width |-> JNum(300), depth |-> JNum(300)]),
               PolyFootprint("poly", JArr(Rectangle)),
               PolyFootprint("POLY", JArr(<<Pt(700, 700)>>)),
               PolyFootprint("poly", Absent),
               PolyFootprint("Poly", JArr(<<JNum(3 * Fix)>>))}}
    \cup {JNum(42 * Fix),
          ElementObj(JStr("e3"), JStr("floor"), Absent, TransformObj, RectFootprint),
          ElementObj(Absent, Absent, JNum(0), Absent, RectFootprint)}

Chair == ElementObj(JStr("e1"), JStr("floor"), JNum(750), TransformObj, RectFootprint)
Door == OpeningObj(JStr("door"), JNum(1 * Fix), JNum(500), JNum(80))

SpaceObj(height, boundary, openings) ==
    ObjOf([height |-> height, boundary |-> boundary, openings |-> openings])
RootObj(space, elements) == ObjOf([space |-> space, elements |-> elements])

\* which of "space", "height", "boundary", "openings", "elements" are there
StructureDocs ==
    {RootObj(sp, el) :
        sp \in {Absent, JNum(1 * Fix)}
               \cup {SpaceObj(h, b, o) :
                        h \in {Absent, JNum(2500)},
                        b \in {Absent, JArr(<<>>), JArr(Square)},
                        o \in {Absent, JArr(<<>>), JArr(<<Door>>)}},
        el \in {Absent, JArr(<<>>), JArr(<<Chair>>)}}
    \cup {JInvalid, JArr(<<>>)}

BoundaryDocs ==
    {RootObj(SpaceObj(JNum(2500), JArr(b), Absent), JArr(<<>>)) :
        b \in BoundedSeqs(PointEntries, MaxBoundary)}

OpeningDocs ==
    {RootObj(SpaceObj(JNum(2500), JArr(Square), JArr(o)), JArr(<<>>)) :
        o \in BoundedSeqs(OpeningEntries, MaxOpenings)}

OpeningRoomDocs ==
    {RootObj(SpaceObj(h, JArr(b), JArr(<<o>>)), JArr(<<>>)) :
        h \in HeightOpts, b \in FewBoundaries, o \in OpeningEntries}

ElementDocs ==
    {RootObj(SpaceObj(JNum(2500), JArr(Square), Absent), JArr(e)) :
        e \in BoundedSeqs(ElementEntries, MaxElements)}

PolyDocs ==
    {RootObj(SpaceObj(JNum(2500), JArr(<<>>), Absent),
             JArr(<<ElementObj(JStr("p"), JStr("floor"), JNum(500), TransformObj,
                               PolyFootprint("poly", JArr(pts)))>>)) :
        pts \in BoundedSeqs(PolyPointEntries, MaxPolyPoints)}

Docs == StructureDocs \cup BoundaryDocs \cup OpeningDocs \cup OpeningRoomDocs
        \cup ElementDocs \cup PolyDocs

---------------------------------------------------------------------------
(* The actor's properties (LayoutLensVisualizerActor.h) *)

DefaultConfig ==
    [SpawnWalls |-> TRUE, WallThicknessCm |-> 10 * Fix, AutoLoadOnBeginPlay |-> TRUE,
     DrawRoomBoundary |-> TRUE, DrawOpenings |-> TRUE, SpawnLabels |-> TRUE]

ThinWalls == [DefaultConfig EXCEPT !.WallThicknessCm = 500]

Configs ==
    {DefaultConfig,
     [DefaultConfig EXCEPT !.SpawnWalls = FALSE],
     ThinWalls,
     [DefaultConfig EXCEPT !.AutoLoadOnBeginPlay = FALSE],
     [DefaultConfig EXCEPT !.DrawRoomBoundary = FALSE],
     [DefaultConfig EXCEPT !.DrawOpenings = FALSE],
     [DefaultConfig EXCEPT !.SpawnLabels = FALSE]}

---------------------------------------------------------------------------
(* The actor *)

FileStates == {"ok", "File not found", "LoadFileToString failed"}

\* ALayoutLensVisualizerActor::ALayoutLensVisualizerActor, the properties as
\* set in the editor, and the file as the pipeline left it
Init ==
    /\ \/ doc \in Docs /\ cfg = DefaultConfig /\ file = "ok"
       \/ doc \in StructureDocs /\ cfg \in Configs /\ file \in FileStates
       \/ doc \in OpeningRoomDocs /\ cfg = ThinWalls /\ file = "ok"
    /\ pc = "constructed"
    /\ reloads = 0
    /\ ReturnValue = FALSE
    /\ ErrorText = ""
    /\ Plan = DefaultPlan
    /\ SpawnedActors = <<>>
    /\ debugLines = <<>>

\* ALayoutLensVisualizerActor::LoadJsonTextFromFile: [ok, text, err]
LoadJsonTextFromFile ==
    IF file = "ok" THEN [ok |-> TRUE, text |-> doc, err |-> ""]
    ELSE [ok |-> FALSE, text |-> JInvalid, err |-> file]

\* ALayoutLensVisualizerActor::ReloadLayout
ReloadLayout ==
    /\ reloads' = reloads + 1
    /\ IF ~LoadJsonTextFromFile.ok
       THEN /\ ReturnValue' = FALSE
            /\ ErrorText' = LoadJsonTextFromFile.err
            /\ Plan' = DefaultPlan
            /\ SpawnedActors' = <<>>
            /\ debugLines' = debugLines
       ELSE LET r == ParseRoomPlanJson(LoadJsonTextFromFile.text, DefaultPlan) IN
            /\ ReturnValue' = r.ok
            /\ ErrorText' = r.err
            /\ Plan' = r.plan
            /\ IF ~r.ok
               THEN /\ SpawnedActors' = <<>>
                    /\ debugLines' = debugLines
               ELSE /\ SpawnedActors' =
                        (IF cfg.SpawnWalls
                         THEN SpawnWallMeshes(r.plan, cfg.WallThicknessCm) ELSE <<>>)
                        \o SpawnFloorElements(r.plan, cfg.SpawnLabels)
                    /\ debugLines' = debugLines
                        \o (IF cfg.DrawRoomBoundary THEN SpawnRoomOutline(r.plan) ELSE <<>>)
                        \o (IF cfg.DrawOpenings
                            THEN SpawnOpenings(r.plan, cfg.WallThicknessCm) ELSE <<>>)

\* ALayoutLensVisualizerActor::BeginPlay
BeginPlay ==
    /\ pc = "constructed"
    /\ pc' = "playing"
    /\ IF cfg.AutoLoadOnBeginPlay
       THEN ReloadLayout
       ELSE UNCHANGED <<reloads, ReturnValue, ErrorText, Plan, SpawnedActors, debugLines>>
    /\ UNCHANGED <<doc, file, cfg>>

\* ALayoutLensVisualizerActor::ReloadLayoutHotkey
ReloadLayoutHotkey ==
    /\ pc = "playing"
    /\ reloads < MaxReloads
    /\ ReloadLayout
    /\ UNCHANGED <<doc, file, pc, cfg>>

\* ALayoutLensVisualizerActor::EndPlay: ClearSpawnedActors
EndPlay ==
    /\ pc = "playing"
    /\ pc' = "ended"
    /\ SpawnedActors' = <<>>
    /\ UNCHANGED <<doc, file, cfg, reloads, ReturnValue, ErrorText, Plan, debugLines>>

Next == BeginPlay \/ ReloadLayoutHotkey \/ EndPlay

Spec == Init /\ [][Next]_vars

---------------------------------------------------------------------------
(* The actor while the pipeline writes the file again between reloads      *)
(* ("Press R to reload after generating a new JSON")                       *)

\* a furnished room, a bare two-corner room, and three documents that do
\* not parse
EditedDocs ==
    {RootObj(SpaceObj(JNum(2500), JArr(Square), JArr(<<Door>>)), JArr(<<Chair>>)),
     RootObj(SpaceObj(JNum(3000), JArr(<<Pt(0, 0), Pt(200, 100)>>), Absent), JArr(<<>>)),
     RootObj(Absent, JArr(<<Chair>>)),
     RootObj(SpaceObj(JNum(2500), JArr(Square), Absent), Absent),
     JInvalid}

InitEdits ==
    /\ doc \in EditedDocs
    /\ file \in FileStates
    /\ cfg \in Configs
    /\ pc = "constructed"
    /\ reloads = 0
    /\ ReturnValue = FALSE
    /\ ErrorText = ""
    /\ Plan = DefaultPlan
    /\ SpawnedActors = <<>>
    /\ debugLines = <<>>

\* the file at RoomPlanFilePath is written again, or removed, while playing
FileRewritten ==
    /\ pc = "playing"
    /\ \E d \in EditedDocs, f \in FileStates :
          /\ <<d, f>> # <<doc, file>>
          /\ doc' = d
          /\ file' = f
    /\ UNCHANGED <<pc, cfg, reloads, ReturnValue, ErrorText, Plan, SpawnedActors,
                   debugLines>>

NextEdits == BeginPlay \/ ReloadLayoutHotkey \/ EndPlay \/ FileRewritten

SpecEdits == InitEdits /\ [][NextEdits]_vars

---------------------------------------------------------------------------
(* What the claims read off the document, written apart from the parser *)

\* the last ReloadLayout got as far as ParseRoomPlanJson
ParseRan == reloads > 0 /\ file = "ok"
ParseSucceeded == ParseRan /\ ReturnValue = TRUE

DocIsObject == doc.t = "obj"
HasSpace == DocIsObject /\ "space" \in DOMAIN doc.o /\ doc.o["space"].t = "obj"
DocSpace == doc.o["space"].o
HasBoundary == HasSpace /\ "boundary" \in DOMAIN DocSpace /\ DocSpace["boundary"].t = "arr"
HasOpenings == HasSpace /\ "openings" \in DOMAIN DocSpace /\ DocSpace["openings"].t = "arr"
HasElements == DocIsObject /\ "elements" \in DOMAIN doc.o /\ doc.o["elements"].t = "arr"
Wellformed == HasBoundary /\ HasElements
DocBoundary == DocSpace["boundary"].a
DocOpenings == IF HasOpenings THEN DocSpace["openings"].a ELSE <<>>
DocElements == doc.o["elements"].a

\* the object entries of an array, in order
RECURSIVE ObjectEntries(_)
ObjectEntries(a) ==
    IF Len(a) = 0 THEN <<>>
    ELSE (IF Head(a).t = "obj" THEN <<Head(a).o>> ELSE <<>>) \o ObjectEntries(Tail(a))

NothingDerived == SpawnedActors = <<>> /\ debugLines = <<>>

\* item i of a parsed list carries the values the keys of object o hold
PointMatches(p, o) ==
    /\ "x" \in DOMAIN o => p.X = o["x"].n
    /\ "y" \in DOMAIN o => p.Y = o["y"].n
OpeningMatches(op, o) ==
    /\ "kind" \in DOMAIN o => op.Kind = o["kind"].s
    /\ "center" \in DOMAIN o => op.Center01 = o["center"].n
    /\ "width" \in DOMAIN o => op.WidthMeters = o["width"].n
ElementMatches(e, o) ==
    /\ "id" \in DOMAIN o => e.Id = o["id"].s
    /\ "placement" \in DOMAIN o => e.Placement = o["placement"].s
    /\ "height" \in DOMAIN o => e.HeightMeters = o["height"].n

---------------------------------------------------------------------------
(* C1: when the parser runs on a JSON object, it fails, with nothing        *)
(* derived from the document, if the root has no "space" object, if        *)
(* "space" has no "boundary" array, or if "boundary" is there and the root *)
(* has no "elements" array; and the cause reported is a different one in   *)
(* each of the three cases.                                                *)
C1_FatalCases ==
    (ParseRan /\ DocIsObject) =>
        /\ ~HasSpace =>
              ReturnValue = FALSE /\ NothingDerived
              /\ ErrorText = "Missing 'space' object."
        /\ (HasSpace /\ ~HasBoundary) =>
              ReturnValue = FALSE /\ NothingDerived
              /\ ErrorText = "Missing 'space.boundary' array."
        /\ (HasBoundary /\ ~HasElements) =>
              ReturnValue = FALSE /\ NothingDerived
              /\ ErrorText = "Missing 'elements' array."

C1_Witness ==
    /\ ParseRan /\ HasBoundary /\ ~HasElements
    /\ ReturnValue = FALSE
    /\ ErrorText = "Missing 'elements' array."

(* C2: an entry of space.boundary, space.openings or elements that is not  *)
(* an object is passed over and the parse still succeeds: each parsed list *)
(* has exactly one item per object entry of its array, in the array's      *)
(* order.                                                                  *)
C2_NonObjectsSkipped ==
    (ParseRan /\ Wellformed) =>
        /\ ReturnValue = TRUE
        /\ LET bs == ObjectEntries(DocBoundary)
               os == ObjectEntries(DocOpenings)
               es == ObjectEntries(DocElements)
           IN  /\ Len(Plan.Boundary) = Len(bs)
               /\ \A i \in 1..Len(bs) : PointMatches(Plan.Boundary[i], bs[i])
               /\ Len(Plan.Openings) = Len(os)
               /\ \A i \in 1..Len(os) : OpeningMatches(Plan.Openings[i], os[i])
               /\ Len(Plan.Elements) = Len(es)
               /\ \A i \in 1..Len(es) : ElementMatches(Plan.Elements[i], es[i])

C2_Witness ==
    /\ ParseSucceeded /\ Wellformed
    /\ Len(DocElements) = 2
    /\ DocElements[1].t # "obj"
    /\ Len(Plan.Elements) = 1
    /\ EqualsIgnoreCase(Plan.Elements[1].Placement, "floor")

(* C3, as claimed: an item of boundary, openings or elements that lacks a  *)
(* required numeric or string key is left out of the parsed list, and a    *)
(* document whose space lacks "height" does not parse.                     *)
PointComplete(o) == {"x", "y"} \subseteq DOMAIN o
OpeningComplete(o) == {"kind", "edge_index", "center", "width"} \subseteq DOMAIN o
ElementComplete(o) == {"id", "label", "placement", "height"} \subseteq DOMAIN o

C3_Original ==
    (ParseRan /\ Wellformed) =>
        /\ "height" \notin DOMAIN DocSpace => ReturnValue = FALSE
        /\ ReturnValue = TRUE =>
              /\ Len(Plan.Boundary) =
                    Len(SelectSeq(ObjectEntries(DocBoundary), PointComplete))
              /\ Len(Plan.Openings) =
                    Len(SelectSeq(ObjectEntries(DocOpenings), OpeningComplete))
              /\ Len(Plan.Elements) =
                    Len(SelectSeq(ObjectEntries(DocElements), ElementComplete))

(* C3, amended: a missing numeric key is read as 0 and a missing string    *)
(* key as the empty string.  The item is kept in the parsed list with that *)
(* value, and a document whose space lacks "height" parses with room       *)
(* height 0.                                                               *)
C3_MissingKeysReadAsZero ==
    (ParseRan /\ Wellformed) =>
        /\ ReturnValue = TRUE
        /\ "height" \notin DOMAIN DocSpace => Plan.RoomHeightMeters = 0
        /\ LET bs == ObjectEntries(DocBoundary)
               os == ObjectEntries(DocOpenings)
               es == ObjectEntries(DocElements)
           IN  /\ Len(Plan.Boundary) = Len(bs)
               /\ \A i \in 1..Len(bs) :
                     /\ "x" \notin DOMAIN bs[i] => Plan.Boundary[i].X = 0
                     /\ "y" \notin DOMAIN bs[i] => Plan.Boundary[i].Y = 0
               /\ Len(Plan.Openings) = Len(os)
               /\ \A i \in 1..Len(os) :
                     /\ "kind" \notin DOMAIN os[i] => Plan.Openings[i].Kind = ""
                     /\ "edge_index" \notin DOMAIN os[i] => Plan.Openings[i].EdgeIndex = 0
                     /\ "center" \notin DOMAIN os[i] => Plan.Openings[i].Center01 = 0
                     /\ "width" \notin DOMAIN os[i] => Plan.Openings[i].WidthMeters = 0
               /\ Len(Plan.Elements) = Len(es)
               /\ \A i \in 1..Len(es) :
                     /\ "id" \notin DOMAIN es[i] => Plan.Elements[i].Id = ""
                     /\ "placement" \notin DOMAIN es[i] => Plan.Elements[i].Placement = ""
                     /\ "height" \notin DOMAIN es[i] => Plan.Elements[i].HeightMeters = 0

C3_Witness ==
    /\ ParseSucceeded /\ Wellformed
    /\ "height" \in DOMAIN DocSpace
    /\ Len(DocBoundary) = 2
    /\ DocBoundary[1].t = "obj" /\ PointComplete(DocBoundary[1].o)
    /\ DocBoundary[2].t = "obj" /\ "y" \notin DOMAIN DocBoundary[2].o
    /\ Len(Plan.Boundary) = 2
    /\ Plan.Boundary[2].Y = 0

(* C4: a document with "space", "space.boundary" and "elements" and no     *)
(* "openings" key parses, with an empty openings list; with boundary []    *)
(* and elements [] it parses with empty boundary and elements lists.       *)
C4_OpeningsOptional ==
    (ParseRan /\ Wellformed) =>
        /\ "openings" \notin DOMAIN DocSpace =>
              ReturnValue = TRUE /\ Plan.Openings = <<>>
        /\ (DocBoundary = <<>> /\ DocElements = <<>>) =>
              /\ ReturnValue = TRUE
              /\ Plan.Boundary = <<>> /\ Plan.Elements = <<>>
              /\ DocOpenings = <<>> => Plan.Openings = <<>>

C4_Witness ==
    /\ ParseSucceeded /\ Wellformed
    /\ "openings" \notin DOMAIN DocSpace
    /\ "height" \in DOMAIN DocSpace
    /\ DocBoundary # <<>>
    /\ Plan.Openings = <<>>

(* C5: for a parsed element whose footprint kind is "poly" in any case:    *)
(* with at least one point object read, width = max(maxX - minX, 0.01) and *)
(* depth = max(maxY - minY, 0.01) over those points; with "points" absent  *)
(* or holding no object, width and depth are the defaults 1.0 and 1.0.  So *)
(* neither is ever below 0.01.                                             *)
PolyKinds == {"poly", "POLY", "Poly"}
IsPolyEntry(o) ==
    /\ "footprint" \in DOMAIN o /\ o["footprint"].t = "obj"
    /\ "kind" \in DOMAIN o["footprint"].o
    /\ o["footprint"].o["kind"].s \in PolyKinds
PolyPointsOf(o) ==
    LET fp == o["footprint"].o
    IN  IF "points" \in DOMAIN fp /\ fp["points"].t = "arr"
        THEN ObjectEntries(fp["points"].a) ELSE <<>>
Greatest(S) == CHOOSE m \in S : \A x \in S : x <= m
Least(S) == CHOOSE m \in S : \A x \in S : m <= x
AtLeast(v, floor) == IF v < floor THEN floor ELSE v

PolySized(e, o) ==
    LET pts == PolyPointsOf(o)
        xs == {pts[j]["x"].n : j \in 1..Len(pts)}
        ys == {pts[j]["y"].n : j \in 1..Len(pts)}
    IN  /\ e.WidthMeters >= 10 /\ e.DepthMeters >= 10
        /\ IF Len(pts) > 0
           THEN /\ e.WidthMeters = AtLeast(Greatest(xs) - Least(xs), 10)
                /\ e.DepthMeters = AtLeast(Greatest(ys) - Least(ys), 10)
           ELSE e.WidthMeters = 1000 /\ e.DepthMeters = 1000

C5_PolyFootprint ==
    ParseSucceeded =>
        LET es == ObjectEntries(DocElements)
        IN  /\ Len(Plan.Elements) = Len(es)
            /\ \A i \in 1..Len(es) :
                  IsPolyEntry(es[i]) => PolySized(Plan.Elements[i], es[i])

C5_Witness ==
    /\ ParseSucceeded
    /\ \E i \in 1..Len(Plan.Elements) :
          /\ IsPolyEntry(ObjectEntries(DocElements)[i])
          /\ Len(Plan.Elements[i].PolygonPoints) = 1
          /\ Plan.Elements[i].WidthMeters = 10
          /\ Plan.Elements[i].DepthMeters = 10

(* C6, as claimed: after a successful parse the boundary never has exactly *)
(* one vertex.                                                             *)
C6_Original == ParseSucceeded => Len(Plan.Boundary) # 1

(* C6, amended: after a successful parse the boundary has one vertex per   *)
(* object entry of space.boundary, so it has exactly one vertex when the   *)
(* array holds exactly one object.                                         *)
C6_BoundaryVertexCount ==
    ParseSucceeded => Len(Plan.Boundary) = Len(ObjectEntries(DocBoundary))

C6_Witness ==
    /\ ParseSucceeded
    /\ Len(ObjectEntries(DocBoundary)) = 1
    /\ Len(Plan.Boundary) = 1

---------------------------------------------------------------------------
(* What the claims read off the parsed plan and the scene *)

N == Len(Plan.Boundary)
\* vertex i (from 0), in cm
VxCm(i) == 100 * Plan.Boundary[i + 1].X
VyCm(i) == 100 * Plan.Boundary[i + 1].Y
Succ(i) == (i + 1) % N
\* the square of the length of edge i, and whether the edge is 1 cm or longer
EdgeSq(i) ==
    (VxCm(Succ(i)) - VxCm(i)) * (VxCm(Succ(i)) - VxCm(i))
    + (VyCm(Succ(i)) - VyCm(i)) * (VyCm(Succ(i)) - VyCm(i))
LongEnough(i) == EdgeSq(i) >= Fix * Fix
\* len is the length of edge i, to the resolution of the stored numbers
IsLengthOf(len, i) == len >= 0 /\ len * len <= EdgeSq(i) /\ EdgeSq(i) < (len + 1) * (len + 1)
RoomHeightCm == 100 * Plan.RoomHeightMeters

\* the edges that get a wall, in order
WallEdges ==
    IF N < 2 THEN <<>> ELSE SelectSeq([i \in 1..N |-> i - 1], LongEnough)
FloorKinds == {"floor", "Floor", "FLOOR"}
FloorCount == Len(SelectSeq(Plan.Elements, LAMBDA e : e.Placement \in FloorKinds))

\* the edge and the fraction an opening resolves to
ClampedEdge(op) ==
    IF op.EdgeIndex < 0 THEN 0 ELSE IF op.EdgeIndex > N - 1 THEN N - 1 ELSE op.EdgeIndex
ClampedFrac(op) ==
    IF op.Center01 < 0 THEN 0 ELSE IF op.Center01 > Fix THEN Fix ELSE op.Center01
\* the openings that get a rectangle, in order
EmittedOpenings ==
    IF N < 2 THEN <<>>
    ELSE SelectSeq(Plan.Openings, LAMBDA op : LongEnough(ClampedEdge(op)))

\* the outline's lines and the openings' lines among the world's lines
CyanLines == SelectSeq(debugLines, LAMBDA l : l.Color = "Cyan")
OpeningLines == SelectSeq(debugLines, LAMBDA l : l.Color # "Cyan")

\* lines is one run of k lines per successful reload, the same each time,
\* and Holds(j, line) is true of the j-th line (from 1) of every run
EveryRun(lines, k, Holds(_, _)) ==
    IF k = 0 THEN lines = <<>>
    ELSE /\ Len(lines) % k = 0
         /\ Len(lines) >= k
         /\ Len(lines) <= reloads * k
         /\ reloads = 1 => Len(lines) = k
         /\ \A m \in 1..Len(lines) : Holds(((m - 1) % k) + 1, lines[m])

(* C7: the outline of a boundary of N >= 2 vertices is exactly N segments, *)
(* segment i from vertex i to vertex (i+1) mod N, the last one back to the *)
(* first vertex, each end scaled by 100 at elevation 5; a boundary of      *)
(* fewer than 2 vertices gives no segment.                                 *)
OutlineSegment(j, line) ==
    /\ line.A = <<VxCm(j - 1), VyCm(j - 1), 5 * Fix>>
    /\ line.B = <<VxCm(Succ(j - 1)), VyCm(Succ(j - 1)), 5 * Fix>>

C7_Outline ==
    (ParseSucceeded /\ cfg.DrawRoomBoundary) =>
        EveryRun(CyanLines, IF N >= 2 THEN N ELSE 0, OutlineSegment)

C7_Witness ==
    /\ ParseSucceeded /\ cfg.DrawRoomBoundary /\ reloads = 1
    /\ N = 3
    /\ Len(CyanLines) = 3
    /\ CyanLines[3].B = CyanLines[1].A
    /\ CyanLines[3].A # CyanLines[3].B

(* C8, as claimed: a boundary of N >= 2 vertices gets one wall per edge of *)
(* 1 cm or more and none for a shorter edge, none at all for N < 2, each   *)
(* wall centered at the edge midpoint at elevation roomHeight*100/2; and   *)
(* each wall's box has size (edge length, wall thickness, roomHeight*100). *)
WallPlaced(w, i) ==
    /\ 2 * w.Location[1] = VxCm(i) + VxCm(Succ(i))
    /\ 2 * w.Location[2] = VyCm(i) + VyCm(Succ(i))
    /\ 2 * w.Location[3] = RoomHeightCm
    /\ IsLengthOf(w.Box.SafeSizeCm[1], i)

WallsPlaced ==
    /\ Len(SpawnedActors) = Len(WallEdges) + FloorCount
    /\ Len(WallEdges) <= N
    /\ \A j \in 1..Len(WallEdges) : WallPlaced(SpawnedActors[j], WallEdges[j])

WallsShown == ParseSucceeded /\ cfg.SpawnWalls /\ pc = "playing"

C8_Original ==
    WallsShown =>
        /\ WallsPlaced
        /\ \A j \in 1..Len(WallEdges) :
              /\ SpawnedActors[j].Box.SafeSizeCm[2] = cfg.WallThicknessCm
              /\ SpawnedActors[j].Box.SafeSizeCm[3] = RoomHeightCm

(* C8, amended: the same walls, and each wall's box has size (edge length, *)
(* max(wall thickness, 1 cm), max(roomHeight*100, 1 cm)).                  *)
C8_Walls ==
    WallsShown =>
        /\ WallsPlaced
        /\ \A j \in 1..Len(WallEdges) :
              /\ SpawnedActors[j].Box.SafeSizeCm[2] = AtLeast(cfg.WallThicknessCm, Fix)
              /\ SpawnedActors[j].Box.SafeSizeCm[3] = AtLeast(RoomHeightCm, Fix)

\* four vertices, two adjacent ones coincident, a room of height 0: three walls
C8_Witness ==
    /\ WallsShown
    /\ N = 4
    /\ \E i \in 0..3 : EdgeSq(i) = 0
    /\ Len(WallEdges) = 3
    /\ Len(SpawnedActors) = 3
    /\ RoomHeightCm = 0
    /\ SpawnedActors[1].Box.SafeSizeCm[3] = Fix

(* C9: on a boundary of N >= 2 vertices every opening, whatever its        *)
(* edgeIndex, sits on the edge from vertex clamp(edgeIndex, 0, N-1) to the *)
(* next vertex mod N, so the boundary is never indexed out of range, and   *)
(* its center lies at the fraction clamp(center01, 0, 1) of that edge.     *)
OpeningOnEdge(op, e, frac) ==
    LET EdgeA == <<VxCm(e), VyCm(e)>>
        EdgeB == <<VxCm(Succ(e)), VyCm(Succ(e))>>
    IN  OpeningPlanar(EdgeA, EdgeB, Size2D(EdgeB[1] - EdgeA[1], EdgeB[2] - EdgeA[2]),
                      frac, op.WidthMeters, Half(cfg.WallThicknessCm) + 2 * Fix)

\* line j of a run belongs to the rectangle of opening (j-1) \div 4 + 1
OpeningOf(j) == EmittedOpenings[((j - 1) \div 4) + 1]
\* the four lines of a rectangle: bottom, top, the vertical at A, the vertical at B
PlanarEnds(j, line) ==
    LET R == OpeningOnEdge(OpeningOf(j), ClampedEdge(OpeningOf(j)), ClampedFrac(OpeningOf(j)))
        k == ((j - 1) % 4) + 1
        xy(v) == <<v[1], v[2]>>
    IN  /\ ClampedEdge(OpeningOf(j)) \in 0..(N - 1)
        /\ xy(line.A) = (IF k = 4 THEN R.B2D ELSE R.A2D)
        /\ xy(line.B) = (IF k = 3 THEN R.A2D ELSE R.B2D)

C9_OpeningClamped ==
    (ParseSucceeded /\ cfg.DrawOpenings) =>
        EveryRun(OpeningLines, 4 * Len(EmittedOpenings), PlanarEnds)

\* on the 4-vertex square: edgeIndex 99 lands on edge 3, and a center of 1.7
\* on edge 2, from (20, 10) to (0, 10), lies at its end, 7 cm off the wall line
C9_Witness ==
    /\ ParseSucceeded /\ cfg.DrawOpenings /\ cfg.WallThicknessCm = 10 * Fix
    /\ N = 4 /\ reloads = 1
    /\ Len(Plan.Openings) = 2
    /\ Plan.Openings[1].EdgeIndex = 99
    /\ Plan.Openings[2].Center01 = 1700 /\ Plan.Openings[2].EdgeIndex = 2
    /\ Len(OpeningLines) = 8
    /\ VxCm(3) = 0 /\ OpeningLines[1].A[1] = 7 * Fix /\ OpeningLines[1].B[1] = 7 * Fix
    /\ <<VxCm(3), VyCm(3)>> = <<0, 10 * Fix>>
    /\ OpeningLines[5].A[1] + OpeningLines[5].B[1] = 2 * VxCm(3)
    /\ OpeningLines[5].A[2] = VyCm(3) - 7 * Fix

(* C10: with H the room height in cm, a door's rectangle goes from 0 to    *)
(* min(H, 210); a window's from the sill, 100 clamped into                 *)
(* [0, max(H - 20, 0)], to min(H - 10, sill + 100); any other opening's    *)
(* from 0 to min(H, 150).                                                  *)
KindOf(op) ==
    IF op.Kind \in {"door", "Door", "DOOR"} THEN "door"
    ELSE IF op.Kind \in {"window", "Window"} THEN "window" ELSE "other"
Lesser(a, b) == IF a <= b THEN a ELSE b
SillFor(H) ==
    LET cap == IF H - 20 * Fix > 0 THEN H - 20 * Fix ELSE 0
    IN  IF 100 * Fix > cap THEN cap ELSE 100 * Fix
BottomFor(kind, H) == IF kind = "window" THEN SillFor(H) ELSE 0
TopFor(kind, H) ==
    IF kind = "door" THEN Lesser(H, 210 * Fix)
    ELSE IF kind = "window" THEN Lesser(H - 10 * Fix, SillFor(H) + 100 * Fix)
    ELSE Lesser(H, 150 * Fix)

VerticalEnds(j, line) ==
    LET kind == KindOf(OpeningOf(j))
        k == ((j - 1) % 4) + 1
        bottom == BottomFor(kind, RoomHeightCm)
        top == TopFor(kind, RoomHeightCm)
    IN  /\ line.A[3] = (IF k = 2 THEN top ELSE bottom)
        /\ line.B[3] = (IF k = 1 THEN bottom ELSE top)

C10_VerticalExtent ==
    (ParseSucceeded /\ cfg.DrawOpenings) =>
        EveryRun(OpeningLines, 4 * Len(EmittedOpenings), VerticalEnds)

\* a door in a room of 300 cm: top at 210
C10_Witness ==
    /\ ParseSucceeded /\ cfg.DrawOpenings
    /\ RoomHeightCm = 300 * Fix
    /\ Len(EmittedOpenings) = 1
    /\ KindOf(EmittedOpenings[1]) = "door"
    /\ Len(OpeningLines) >= 4
    /\ OpeningLines[2].A[3] = 210 * Fix /\ OpeningLines[2].B[3] = 210 * Fix
    /\ OpeningLines[1].A[3] = 0

---------------------------------------------------------------------------
(* What the claims read off the floor elements *)

\* the elements placed on the floor, in the plan's order
FloorElements == SelectSeq(Plan.Elements, LAMBDA e : e.Placement \in FloorKinds)
\* the actors ahead of the floor boxes in SpawnedActors: the walls
WallCount == IF cfg.SpawnWalls THEN Len(WallEdges) ELSE 0
FloorBox(j) == SpawnedActors[WallCount + j]

\* box j is centered and turned as floor element j says
FloorBoxPlaced(j) ==
    LET e == FloorElements[j]
    IN  /\ FloorBox(j).Location[1] = 100 * e.Transform.X
        /\ FloorBox(j).Location[2] = 100 * e.Transform.Y
        /\ 2 * FloorBox(j).Location[3] = 100 * e.HeightMeters
        /\ FloorBox(j).Rotation.yawDeg = e.Transform.YawDeg

FloorBoxesPlaced ==
    /\ Len(SpawnedActors) = WallCount + Len(FloorElements)
    /\ \A j \in 1..Len(FloorElements) : FloorBoxPlaced(j)

FloorShown == ParseSucceeded /\ pc = "playing"

(* C11, as claimed: one box for exactly the elements whose placement is    *)
(* "floor" in any case, in the plan's order, none for another placement;   *)
(* box centered at (x*100, y*100, height*100/2), turned by yawDeg, with    *)
(* dimensions (width*100, depth*100, height*100).                          *)
C11_Original ==
    FloorShown =>
        /\ FloorBoxesPlaced
        /\ \A j \in 1..Len(FloorElements) :
              FloorBox(j).Box.SafeSizeCm =
                  <<100 * FloorElements[j].WidthMeters,
                    100 * FloorElements[j].DepthMeters,
                    100 * FloorElements[j].HeightMeters>>

(* C11, amended: the same boxes, at the same places, and each box has the  *)
(* dimensions (max(width*100, 1 cm), max(depth*100, 1 cm),                 *)
(* max(height*100, 1 cm)).                                                 *)
C11_FloorBoxes ==
    FloorShown =>
        /\ FloorBoxesPlaced
        /\ \A j \in 1..Len(FloorElements) :
              FloorBox(j).Box.SafeSizeCm =
                  <<AtLeast(100 * FloorElements[j].WidthMeters, Fix),
                    AtLeast(100 * FloorElements[j].DepthMeters, Fix),
                    AtLeast(100 * FloorElements[j].HeightMeters, Fix)>>

\* a "wall" element and then a "floor" element without "height": one box,
\* after the walls, 1 cm high at elevation 0
C11_Witness ==
    /\ FloorShown /\ cfg.SpawnWalls
    /\ Len(Plan.Elements) = 2
    /\ Plan.Elements[1].Placement = "wall"
    /\ Plan.Elements[2].Placement = "floor"
    /\ Plan.Elements[2].HeightMeters = 0
    /\ Len(FloorElements) = 1
    /\ Len(SpawnedActors) = WallCount + 1
    /\ FloorBox(1).Location = <<150 * Fix, -25 * Fix, 0>>
    /\ FloorBox(1).Box.SafeSizeCm = <<120 * Fix, 60 * Fix, 1 * Fix>>

---------------------------------------------------------------------------
(* C12: a second run of the four derivations on the same room plan, with   *)
(* the same wall thickness and labels flag, draws the same lines in the    *)
(* same order and spawns the same actors in the same order as the first,   *)
(* and the plan is the same after as before: a reload that follows a       *)
(* successful reload of the same document adds to the world's lines a copy *)
(* of the last run of lines, and leaves the same actors and the same plan. *)
LastLines(k) == SubSeq(debugLines, Len(debugLines) - k + 1, Len(debugLines))
NewLines == SubSeq(debugLines', Len(debugLines) + 1, Len(debugLines'))

SecondRun == ParseSucceeded /\ pc = "playing" /\ reloads' = reloads + 1

SameAsFirstRun ==
    /\ Plan' = Plan
    /\ SpawnedActors' = SpawnedActors
    /\ Len(debugLines') >= Len(debugLines)
    /\ Len(NewLines) <= Len(debugLines)
    /\ NewLines = LastLines(Len(NewLines))
    /\ reloads = 1 => Len(NewLines) = Len(debugLines)

---------------------------------------------------------------------------
(* C13, as claimed: when a reload fails, because the file cannot be loaded *)
(* or the document does not parse, ReloadLayout returns false and the      *)
(* spawned wall and floor actors are the same after it as before it.       *)
FailedReload == reloads' = reloads + 1 /\ ReturnValue' = FALSE

C13_Original == [][FailedReload => SpawnedActors' = SpawnedActors]_vars

---------------------------------------------------------------------------
(* C14, as claimed: after any number of reloads the scene holds exactly    *)
(* what the last successfully parsed plan gives: its wall boxes and floor  *)
(* boxes, its outline segments and its opening rectangles, and nothing     *)
(* left from an earlier reload.                                            *)
ActorsOfPlan ==
    (IF cfg.SpawnWalls THEN SpawnWallMeshes(Plan, cfg.WallThicknessCm) ELSE <<>>)
    \o SpawnFloorElements(Plan, cfg.SpawnLabels)
LinesOfPlan ==
    (IF cfg.DrawRoomBoundary THEN SpawnRoomOutline(Plan) ELSE <<>>)
    \o (IF cfg.DrawOpenings THEN SpawnOpenings(Plan, cfg.WallThicknessCm) ELSE <<>>)

C14_Original ==
    (ParseSucceeded /\ pc = "playing") =>
        /\ SpawnedActors = ActorsOfPlan
        /\ debugLines = LinesOfPlan

---------------------------------------------------------------------------
(* What C15 reads off an opening's edge *)

\* quotient rounded toward zero
Quot(a, b) == IF a >= 0 THEN a \div b ELSE -((-a) \div b)
\* a and b agree to 0.05 cm, the resolution the unit vectors are stored at
\* over the lengths used here
Tol == Fix \div 20
Near(a, b) == a - b <= Tol /\ b - a <= Tol

EdgeDx(e) == VxCm(Succ(e)) - VxCm(e)
EdgeDy(e) == VyCm(Succ(e)) - VyCm(e)
\* the edge's length: the len with IsLengthOf(len, e)
EdgeLen(e) == ISqrt(EdgeSq(e))
WallOffset == cfg.WallThicknessCm \div 2 + 2 * Fix

\* the center the claim gives an opening: the edge start, plus the clamped
\* fraction of the edge along it, plus the offset along (-dirY, dirX)
CenterX(op) ==
    LET e == ClampedEdge(op)
    IN  VxCm(e) + Quot(ClampedFrac(op) * EdgeDx(e), Fix)
                - Quot(WallOffset * EdgeDy(e), EdgeLen(e))
CenterY(op) ==
    LET e == ClampedEdge(op)
    IN  VyCm(e) + Quot(ClampedFrac(op) * EdgeDy(e), Fix)
                + Quot(WallOffset * EdgeDx(e), EdgeLen(e))
\* half the opening's width along the edge direction
HalfAlongX(op) == Quot(50 * op.WidthMeters * EdgeDx(ClampedEdge(op)), EdgeLen(ClampedEdge(op)))
HalfAlongY(op) == Quot(50 * op.WidthMeters * EdgeDy(ClampedEdge(op)), EdgeLen(ClampedEdge(op)))

EndA(op) == <<CenterX(op) - HalfAlongX(op), CenterY(op) - HalfAlongY(op)>>
EndB(op) == <<CenterX(op) + HalfAlongX(op), CenterY(op) + HalfAlongY(op)>>

NearPoint(v, w) == Near(v[1], w[1]) /\ Near(v[2], w[2])

\* the midpoint of the rectangle's bottom line lies to the left of the edge,
\* seen along its direction, whatever the opening's kind
LeftOfEdge(op, line) ==
    LET e == ClampedEdge(op)
        mx == (line.A[1] + line.B[1]) \div 2 - VxCm(e)
        my == (line.A[2] + line.B[2]) \div 2 - VyCm(e)
    IN  my * (EdgeDx(e) \div 10) - mx * (EdgeDy(e) \div 10) > 0

\* line j of a run: bottom and top from end A to end B, then the verticals
PlanarGeometry(j, line) ==
    LET op == OpeningOf(j)
        k == ((j - 1) % 4) + 1
    IN  /\ NearPoint(line.A, IF k = 4 THEN EndB(op) ELSE EndA(op))
        /\ NearPoint(line.B, IF k = 3 THEN EndA(op) ELSE EndB(op))
        /\ k = 1 => LeftOfEdge(op, line)

(* C15: every opening on an edge of 1 cm or more gets a rectangle whose    *)
(* planar center is the edge start plus clamp(center01, 0, 1) times the    *)
(* edge length along the edge direction (dirX, dirY), moved by             *)
(* wallThickness/2 + 2 cm along (-dirY, dirX), the same side for every     *)
(* kind; its planar ends are the center minus and plus half of width*100   *)
(* along the edge direction. An opening on a shorter edge, and every       *)
(* opening of a boundary of fewer than 2 vertices, gets no rectangle.      *)
C15_OpeningPlanar ==
    (ParseSucceeded /\ cfg.DrawOpenings) =>
        EveryRun(OpeningLines, 4 * Len(EmittedOpenings), PlanarGeometry)

\* a door 8 cm wide at the middle of the edge from (20, 10) back to (0, 0),
\* walls 0.5 cm thick: centered 2.25 cm off (10, 5), at about (11.0, 3.0)
C15_Witness ==
    /\ ParseSucceeded /\ cfg.DrawOpenings /\ cfg.WallThicknessCm = 500
    /\ reloads = 1
    /\ N = 2 /\ <<VxCm(1), VyCm(1)>> = <<20 * Fix, 10 * Fix>>
    /\ Len(Plan.Openings) = 1
    /\ Plan.Openings[1].EdgeIndex = 1 /\ Plan.Openings[1].Center01 = 500
    /\ Plan.Openings[1].WidthMeters = 80
    /\ Len(OpeningLines) = 4
    /\ Near(OpeningLines[1].A[1] + OpeningLines[1].B[1], 22012)
    /\ Near(OpeningLines[1].A[2] + OpeningLines[1].B[2], 5975)
    /\ OpeningLines[1].A[1] > OpeningLines[1].B[1]

---------------------------------------------------------------------------
(* C16, as claimed: in a room of height 0 or more every opening rectangle, *)
(* whatever the opening's kind, has its bottom at or below its top and at  *)
(* or above the floor.                                                     *)
\* rectangle r of the world's opening lines: the height of its bottom line
\* and of its top line
RectBottom(r) == OpeningLines[4 * r - 3].A[3]
RectTop(r) == OpeningLines[4 * r - 2].A[3]

C16_Original ==
    (ParseSucceeded /\ cfg.DrawOpenings /\ RoomHeightCm >= 0) =>
        \A r \in 1..(Len(OpeningLines) \div 4) :
            RectBottom(r) <= RectTop(r) /\ RectBottom(r) >= 0

=============================================================================
